---- MODULE Spec2Model ----
(***************************************************************************)
(* ImprovedLayoutGenerator (text_to_3d/layout_generator/layout_model.py):  *)
(* generate_layout distributes the requested rooms over the stories, lays  *)
(* a corridor and the rooms of each story on an occupancy grid by          *)
(* randomized trial placement, scales the grid placements to metres and    *)
(* connects every room to the corridor with a door.                        *)
(*                                                                         *)
(* A room is its type string.  Grid cells are pairs <<x, y>>; the          *)
(* occupancy grid is the set of its occupied cells.  A loop of K random    *)
(* trials is one step whose outcomes are exactly those the K draws can     *)
(* produce: it can end at any candidate position that is valid, and it can *)
(* end without a placement when at least one candidate is invalid.         *)
(* Metric lengths are exact multiples of 1/(4*grid_size) metre and are     *)
(* stored as that integer multiple (plot sides are whole metres).          *)
(***************************************************************************)
EXTENDS Integers, Sequences, FiniteSets, TLC

\* ---------------------------------------------------------------- bounds
\* longest request among the enumerated short requests
MaxRooms == 2
\* largest story count of the enumerated requests
MaxStories == 2
\* number of lobby requests in the grid-filling request
FillRooms == 16
\* longest request and largest story count given to the story distribution alone
MaxDistRooms == 6
MaxDistStories == 3

\* ------------------------------------------------------ program constants
\* standard_dimensions, in tenths of a metre / tenths of a square metre
standard_dimensions ==
    [t \in {"bedroom", "kitchen", "bathroom", "washroom", "living room",
            "tv lounge", "dining room", "garage", "car parking", "lobby",
            "hallway", "corridor"} |->
      CASE t = "bedroom"     -> [width |-> 35, length |-> 40, min_area |-> 120]
        [] t = "kitchen"     -> [width |-> 30, length |-> 35, min_area |-> 90]
        [] t = "bathroom"    -> [width |-> 20, length |-> 25, min_area |-> 45]
        [] t = "washroom"    -> [width |-> 20, length |-> 25, min_area |-> 45]
        [] t = "living room" -> [width |-> 40, length |-> 50, min_area |-> 150]
        [] t = "tv lounge"   -> [width |-> 40, length |-> 45, min_area |-> 150]
        [] t = "dining room" -> [width |-> 35, length |-> 40, min_area |-> 100]
        [] t = "garage"      -> [width |-> 35, length |-> 55, min_area |-> 160]
        [] t = "car parking" -> [width |-> 35, length |-> 55, min_area |-> 160]
        [] t = "lobby"       -> [width |-> 20, length |-> 40, min_area |-> 80]
        [] t = "hallway"     -> [width |-> 15, length |-> 40, min_area |-> 60]
        [] t = "corridor"    -> [width |-> 12, length |-> 30, min_area |-> 36]]

\* door_width in millimetres
door_width == 900
\* the width of a main entrance door: door_width * 1.2
main_door_width == (door_width * 12) \div 10

\* ---------------------------------------------------------------- helpers
Max(a, b) == IF a >= b THEN a ELSE b
Min(a, b) == IF a <= b THEN a ELSE b
Abs(a) == IF a >= 0 THEN a ELSE 0 - a

\* str.lower() on the type strings of the requests
Lower(t) ==
    CASE t = "Bedroom" -> "bedroom"
      [] t = "LOBBY"   -> "lobby"
      [] OTHER         -> t

\* [f(x) for x in s if P(x)] for the category filters
RECURSIVE Filter(_, _)
Filter(s, S) ==
    IF s = <<>> THEN <<>>
    ELSE IF Lower(Head(s)) \in S THEN <<Head(s)>> \o Filter(Tail(s), S)
         ELSE Filter(Tail(s), S)

RECURSIVE FilterOut(_, _)
FilterOut(s, S) ==
    IF s = <<>> THEN <<>>
    ELSE IF Lower(Head(s)) \notin S THEN <<Head(s)>> \o FilterOut(Tail(s), S)
         ELSE FilterOut(Tail(s), S)

RECURSIVE SumLen(_, _)
SumLen(f, n) == IF n = 0 THEN 0 ELSE Len(f[n]) + SumLen(f, n - 1)

Take(s, n) == SubSeq(s, 1, Min(n, Len(s)))
Drop(s, n) == SubSeq(s, Min(n, Len(s)) + 1, Len(s))

\* ----------------------------------------------- _distribute_rooms_by_story
DistPublicTypes == {"living room", "tv lounge", "kitchen", "dining room",
                    "lobby", "entrance", "garage", "car parking"}
DistBathTypes == {"bathroom", "washroom"}

\* (mutant) the first upper floor takes all bedrooms and bathrooms
DistPerFloor_first(story, N, rbs, beds, baths, bpf, bapf) ==
    [rbs |-> [rbs EXCEPT ![story] = @ \o beds \o baths],
     beds |-> <<>>, baths |-> <<>>]

\* first loop over the upper floors: bedrooms_per_floor bedrooms, then
\* bathrooms_per_floor bathrooms, while there are some
RECURSIVE DistPerFloor(_, _, _, _, _, _, _)
DistPerFloor(story, N, rbs, beds, baths, bpf, bapf) ==
    IF story > N THEN [rbs |-> rbs, beds |-> beds, baths |-> baths]
    ELSE DistPerFloor(story + 1, N,
            [rbs EXCEPT ![story] = @ \o Take(beds, bpf) \o Take(baths, bapf)],
            Drop(beds, bpf), Drop(baths, bapf), bpf, bapf)

\* (mutant) no second loop: what the first loop left over is not assigned
DistRemaining_none(story, N, rbs, beds, baths) ==
    [rbs |-> rbs, beds |-> beds, baths |-> baths]

\* second loop over the upper floors: one remaining bedroom and one remaining
\* bathroom per floor (the while loops break after one iteration)
RECURSIVE DistRemaining(_, _, _, _, _)
DistRemaining(story, N, rbs, beds, baths) ==
    IF story > N THEN [rbs |-> rbs, beds |-> beds, baths |-> baths]
    ELSE DistRemaining(story + 1, N,
            [rbs EXCEPT ![story] = @ \o Take(beds, 1) \o Take(baths, 1)],
            Drop(beds, 1), Drop(baths, 1))

\* min(range(1, stories + 1), key=lambda s: len(rooms_by_story[s])): the
\* first story among those with the fewest rooms
MinStory(rbs, N) ==
    CHOOSE s \in 1..N :
        /\ \A t \in 1..N : Len(rbs[s]) <= Len(rbs[t])
        /\ \A t \in 1..(s - 1) : Len(rbs[t]) > Len(rbs[s])

RECURSIVE DistOthers(_, _, _)
DistOthers(others, N, rbs) ==
    IF others = <<>> THEN rbs
    ELSE DistOthers(Tail(others), N,
            [rbs EXCEPT ![MinStory(rbs, N)] = @ \o <<Head(others)>>])

\* (mutant) a bedroom is pulled back to floor 1 already at 2 * (stories - 1)
DistAssigned_pull_ge(rms, N) ==
    LET public_rooms == Filter(rms, DistPublicTypes)
        bedrooms     == Filter(rms, {"bedroom"})
        bathrooms    == Filter(rms, DistBathTypes)
        other_rooms  == FilterOut(rms, DistPublicTypes \cup {"bedroom"} \cup DistBathTypes)
        empty        == [s \in 1..N |-> <<>>]
    IN  IF N = 1
        THEN [empty EXCEPT ![1] = public_rooms \o bedrooms \o bathrooms \o other_rooms]
        ELSE
          LET bpf   == Max(1, Len(bedrooms) \div (N - 1))
              bapf  == Max(1, Len(bathrooms) \div (N - 1))
              pull  == Len(bedrooms) >= 2 * (N - 1)
              first == public_rooms
                       \o (IF pull THEN Take(bedrooms, 1) \o Take(bathrooms, 1)
                           ELSE <<>>)
              beds1  == IF pull THEN Drop(bedrooms, 1) ELSE bedrooms
              baths1 == IF pull THEN Drop(bathrooms, 1) ELSE bathrooms
              a == DistPerFloor(2, N, [empty EXCEPT ![1] = first],
                                beds1, baths1, bpf, bapf)
              b == DistRemaining(2, N, a.rbs, a.beds, a.baths)
          IN  DistOthers(other_rooms, N, b.rbs)

\* the assignment of the requested rooms, before the hallway placeholders
DistAssigned(rms, N) ==
    LET public_rooms == Filter(rms, DistPublicTypes)
        bedrooms     == Filter(rms, {"bedroom"})
        bathrooms    == Filter(rms, DistBathTypes)
        other_rooms  == FilterOut(rms, DistPublicTypes \cup {"bedroom"} \cup DistBathTypes)
        empty        == [s \in 1..N |-> <<>>]
    IN  IF N = 1
        THEN [empty EXCEPT ![1] = public_rooms \o bedrooms \o bathrooms \o other_rooms]
        ELSE
          LET bpf   == Max(1, Len(bedrooms) \div (N - 1))
              bapf  == Max(1, Len(bathrooms) \div (N - 1))
              pull  == Len(bedrooms) > 2 * (N - 1)
              first == public_rooms
                       \o (IF pull THEN Take(bedrooms, 1) \o Take(bathrooms, 1)
                           ELSE <<>>)
              beds1  == IF pull THEN Drop(bedrooms, 1) ELSE bedrooms
              baths1 == IF pull THEN Drop(bathrooms, 1) ELSE bathrooms
              a == DistPerFloor(2, N, [empty EXCEPT ![1] = first],
                                beds1, baths1, bpf, bapf)
              b == DistRemaining(2, N, a.rbs, a.beds, a.baths)
          IN  DistOthers(other_rooms, N, b.rbs)

\* (mutant) a hallway also for a story that has a single room
HallwayStories_short(rbs, N) == {s \in 1..N : Len(rbs[s]) <= 1}

\* the stories that get a hallway placeholder
HallwayStories(rbs, N) == {s \in 1..N : rbs[s] = <<>>}

distribute_rooms_by_story(rms, N) ==
    LET rbs == DistAssigned(rms, N)
    IN  [s \in 1..N |-> IF s \in HallwayStories(rbs, N)
                        THEN Append(rbs[s], "hallway")
                        ELSE rbs[s]]

\* ------------------------------------------------------------ grid geometry
\* grid_size = max(5, int(min(total_width, total_length) / 3))
grid_size_of(total_width, total_length) ==
    Max(5, Min(total_width, total_length) \div 3)

\* total_width, total_length of a plot_size (15.0 x 15.0 when not both given)
PlotDims(ps) ==
    IF "width_meters" \in DOMAIN ps /\ "length_meters" \in DOMAIN ps
    THEN <<ps.width_meters, ps.length_meters>>
    ELSE <<15, 15>>

zones(G) ==
    [z \in {"public", "private", "service", "other"} |->
      CASE z = "public"  -> [position |-> <<0, 0>>, size |-> <<G \div 2, G \div 2>>]
        [] z = "private" -> [position |-> <<G \div 2, 0>>, size |-> <<G \div 2, G \div 2>>]
        [] z = "service" -> [position |-> <<0, G \div 2>>, size |-> <<G \div 2, G \div 2>>]
        [] z = "other"   -> [position |-> <<G \div 2, G \div 2>>,
                             size |-> <<G \div 2, G \div 2>>]]

\* (mutant) rows and columns exchanged: grid[x:x+width, y:y+height]
Cells_swapped(x, y, width, height) ==
    {<<i, j>> : i \in x..(x + height - 1), j \in y..(y + width - 1)}

\* the cells grid[y:y+height, x:x+width]
Cells(x, y, width, height) ==
    {<<i, j>> : i \in x..(x + width - 1), j \in y..(y + height - 1)}

AllCells(G) == Cells(0, 0, G, G)

\* (mutant) only the corner cell is tested for occupancy
is_position_valid_corner(g, G, x, y, width, height) ==
    /\ ~(x < 0 \/ y < 0 \/ x + width > G \/ y + height > G)
    /\ <<x, y>> \notin g

is_position_valid(g, G, x, y, width, height) ==
    /\ ~(x < 0 \/ y < 0 \/ x + width > G \/ y + height > G)
    /\ Cells(x, y, width, height) \cap g = {}

\* (mutant) the corridor strip lies one row higher
CorridorPlacement_low(G) ==
    [position |-> <<1, G \div 2 + 1>>, size |-> <<G - 2, 1>>]

\* (mutant) the corridor strip is as long as the grid
CorridorPlacement_long(G) ==
    [position |-> <<1, G \div 2>>, size |-> <<G, 1>>]

\* _place_corridor: position and size of the corridor strip
CorridorPlacement(G) ==
    LET corridor_width  == 1
        corridor_length == G - 2
        y0 == G \div 2
        y  == IF y0 + corridor_width > G THEN G - corridor_width - 1 ELSE y0
    IN  [position |-> <<1, y>>, size |-> <<corridor_length, corridor_width>>]

\* int(np.ceil(d / 2)) for d given in tenths of a metre
CeilHalf(d) == (d + 19) \div 20

\* while grid_width * grid_height < min_area / 4: grid_width += 1
RECURSIVE GrowWidth(_, _, _)
GrowWidth(w, h, min_area) ==
    IF w * h * 40 < min_area THEN GrowWidth(w + 1, h, min_area) ELSE w

\* (mutant) the default footprint of _place_room_anywhere is 3 x 3
PlainFootprint_default3(t) ==
    IF Lower(t) \in DOMAIN standard_dimensions
    THEN LET d == standard_dimensions[Lower(t)]
         IN  <<Max(1, CeilHalf(d.width)), Max(1, CeilHalf(d.length))>>
    ELSE <<3, 3>>

\* the footprint of _place_room_anywhere: no minimum-area growth
PlainFootprint(t) ==
    IF Lower(t) \in DOMAIN standard_dimensions
    THEN LET d == standard_dimensions[Lower(t)]
         IN  <<Max(1, CeilHalf(d.width)), Max(1, CeilHalf(d.length))>>
    ELSE <<2, 2>>

\* the footprint of _place_room_in_zone and _place_room_near_position
AreaFootprint(t) ==
    IF Lower(t) \in DOMAIN standard_dimensions
    THEN LET d == standard_dimensions[Lower(t)]
             h == Max(1, CeilHalf(d.length))
         IN  <<GrowWidth(Max(1, CeilHalf(d.width)), h, d.min_area), h>>
    ELSE <<2, 2>>

\* the footprint after "Room too big for zone, try to resize"
ZoneFootprint(t, zone_size) ==
    LET f == AreaFootprint(t)
    IN  <<Min(f[1], zone_size[1]), Min(f[2], zone_size[2])>>

\* the positions random.randint can draw in _place_room_in_zone
ZoneCandidates(zone_pos, zone_size, f) ==
    LET xs == IF zone_pos[1] + zone_size[1] - f[1] < zone_pos[1] THEN {zone_pos[1]}
              ELSE zone_pos[1]..(zone_pos[1] + zone_size[1] - f[1])
        ys == IF zone_pos[2] + zone_size[2] - f[2] < zone_pos[2] THEN {zone_pos[2]}
              ELSE zone_pos[2]..(zone_pos[2] + zone_size[2] - f[2])
    IN  xs \X ys

\* the positions random.randint can draw in _place_room_anywhere
AnywhereCandidates(G, f) ==
    LET xs == IF G <= f[1] THEN {0} ELSE 0..(G - f[1] - 1)
        ys == IF G <= f[2] THEN {0} ELSE 0..(G - f[2] - 1)
    IN  xs \X ys

\* the positions of the 20 random trials of _place_room_near_position
NearCandidates(G, f, target) ==
    {<<Max(0, Min(G - f[1], target[1] + dx)), Max(0, Min(G - f[2], target[2] + dy))>> :
        dx \in (0 - 3)..3, dy \in (0 - 3)..3}

\* the four positions around the target, in the order they are tried
AdjacentPositions(f, target) ==
    <<<<target[1] + f[1], target[2]>>, <<target[1] - f[1], target[2]>>,
      <<target[1], target[2] + f[2]>>, <<target[1], target[2] - f[2]>> >>

\* (mutant) the scan looks at the first row only
OpenCells_first_row(g, G) == Cells(0, 0, G, 1) \ g

\* (mutant) the scan stops one row short of the grid
OpenCells_short(g, G) == Cells(0, 0, G, G - 1) \ g

\* the cells the last-resort scan of _place_room_anywhere finds open
OpenCells(g, G) == AllCells(G) \ g

\* the first open cell in row-major order (rows y outermost)
FirstFree(g, G) ==
    CHOOSE c \in OpenCells(g, G) :
        \A d \in OpenCells(g, G) : c[2] < d[2] \/ (c[2] = d[2] /\ c[1] <= d[1])

\* ------------------------------------------------------------------ doors
\* (mutant) no adjacency rule: every door is the virtual door between centers
find_door_position_virtual(G, room1, room2) ==
    LET c1x == room1.position[1] + room1.size[1] \div 2
        c1y == room1.position[2] + room1.size[2] \div 2
        c2x == room2.position[1] + room2.size[1] \div 2
        c2y == room2.position[2] + room2.size[2] \div 2
    IN  IF Abs(c1x - c2x) > Abs(c1y - c2y)
        THEN [position |-> <<(c1x + c2x) \div 2, (c1y + c2y) \div 2>>,
              orientation |-> "vertical", rule |-> "virtual"]
        ELSE [position |-> <<(c1x + c2x) \div 2, (c1y + c2y) \div 2>>,
              orientation |-> "horizontal", rule |-> "virtual"]

\* _find_door_position(room1, room2); lengths in units of 1/(4*G) metre, so
\* that 0.1 m is 4*G/10 units
find_door_position(G, room1, room2) ==
    LET r1_left   == room1.position[1]
        r1_right  == room1.position[1] + room1.size[1]
        r1_bottom == room1.position[2]
        r1_top    == room1.position[2] + room1.size[2]
        r2_left   == room2.position[1]
        r2_right  == room2.position[1] + room2.size[1]
        r2_bottom == room2.position[2]
        r2_top    == room2.position[2] + room2.size[2]
        close(a, b) == Abs(a - b) * 10 < 4 * G
        c1x == r1_left + room1.size[1] \div 2
        c1y == r1_bottom + room1.size[2] \div 2
        c2x == r2_left + room2.size[1] \div 2
        c2y == r2_bottom + room2.size[2] \div 2
    IN  IF /\ (close(r1_right, r2_left) \/ close(r2_right, r1_left))
           /\ \/ (r1_bottom <= r2_top /\ r1_top >= r2_bottom)
              \/ (r2_bottom <= r1_top /\ r2_top >= r1_bottom)
        THEN LET overlap_middle ==
                    (Max(r1_bottom, r2_bottom) + Min(r1_top, r2_top)) \div 2
             IN  IF close(r1_right, r2_left)
                 THEN [position |-> <<r1_right, overlap_middle>>,
                       orientation |-> "horizontal", rule |-> "wall"]
                 ELSE [position |-> <<r1_left, overlap_middle>>,
                       orientation |-> "horizontal", rule |-> "wall"]
        ELSE IF /\ (close(r1_top, r2_bottom) \/ close(r2_top, r1_bottom))
                /\ \/ (r1_left <= r2_right /\ r1_right >= r2_left)
                   \/ (r2_left <= r1_right /\ r2_right >= r1_left)
        THEN LET overlap_middle ==
                    (Max(r1_left, r2_left) + Min(r1_right, r2_right)) \div 2
             IN  IF close(r1_top, r2_bottom)
                 THEN [position |-> <<overlap_middle, r1_top>>,
                       orientation |-> "vertical", rule |-> "wall"]
                 ELSE [position |-> <<overlap_middle, r1_bottom>>,
                       orientation |-> "vertical", rule |-> "wall"]
        ELSE IF Abs(c1x - c2x) > Abs(c1y - c2y)
        THEN [position |-> <<(c1x + c2x) \div 2, (c1y + c2y) \div 2>>,
              orientation |-> "vertical", rule |-> "virtual"]
        ELSE [position |-> <<(c1x + c2x) \div 2, (c1y + c2y) \div 2>>,
              orientation |-> "horizontal", rule |-> "virtual"]

\* ------------------------------------------------------------------ state
VARIABLES
    rooms, plot_size, stories,      \* the arguments of generate_layout
    pc,                             \* position in generate_layout
    rooms_by_story,                 \* result of _distribute_rooms_by_story
    hallway_added,                  \* stories that got the hallway placeholder
    story, room_id,                 \* loop variable and id counter
    all_rooms, all_connections, all_doors,
    grid,                           \* occupied cells of the current story
    queue, qi,                      \* rooms of the story in processing order
    room_placements,
    calls, stage,                   \* placement calls left for queue[qi]
    free_at_start,                  \* open cells when queue[qi] was taken up
    dropped,                        \* rooms that got no placement
    layout                          \* the returned layout

vars == <<rooms, plot_size, stories, pc, rooms_by_story, hallway_added, story,
          room_id, all_rooms, all_connections, all_doors, grid, queue, qi,
          room_placements, calls, stage, free_at_start, dropped, layout>>

total_width  == PlotDims(plot_size)[1]
total_length == PlotDims(plot_size)[2]
grid_size    == grid_size_of(total_width, total_length)

\* ------------------------------------------------------------------ inputs
RoomTypes == {"living room", "lobby", "kitchen", "bedroom", "bathroom",
              "garage", "study", "corridor"}

RECURSIVE SeqsUpTo(_, _)
SeqsUpTo(S, n) ==
    IF n = 0 THEN {<<>>}
    ELSE LET shorter == SeqsUpTo(S, n - 1)
         IN  shorter \cup {Append(q, t) : q \in shorter, t \in S}

Repeat(t, n) == [i \in 1..n |-> t]

DefaultPlot == [width_meters |-> 15, length_meters |-> 15]

\* the scenario of the spec: five rooms on a 15 x 15 m plot, one story
ScenarioRooms == <<"bedroom", "bedroom", "kitchen", "bathroom", "living room">>

\* a request that exhausts the 5 x 5 grid of the first story
FillRequest ==
    <<"living room">> \o Repeat("lobby", FillRooms) \o <<"bedroom", "bathroom", "study">>

Inputs ==
    {[rooms |-> r, stories |-> n, plot_size |-> DefaultPlot] :
        r \in SeqsUpTo(RoomTypes, MaxRooms), n \in 1..MaxStories}
    \cup {[rooms |-> ScenarioRooms, stories |-> 1, plot_size |-> DefaultPlot],
          [rooms |-> FillRequest, stories |-> 1, plot_size |-> DefaultPlot],
          [rooms |-> FillRequest, stories |-> 2, plot_size |-> DefaultPlot],
          [rooms |-> <<"Bedroom", "LOBBY">>, stories |-> 1,
           plot_size |-> [marla |-> 10, kanal |-> 1]],
          [rooms |-> <<"bedroom", "bathroom">>, stories |-> 1,
           plot_size |-> [width_meters |-> 10, length_meters |-> 20]],
          [rooms |-> <<"lobby", "kitchen">>, stories |-> 2,
           plot_size |-> [width_meters |-> 18, length_meters |-> 18]],
          [rooms |-> <<"bedroom", "washroom">>, stories |-> 1,
           plot_size |-> [width_meters |-> 12]]}

Init ==
    /\ \E inp \in Inputs :
          /\ rooms = inp.rooms
          /\ stories = inp.stories
          /\ plot_size = inp.plot_size
    /\ pc = "call"
    /\ rooms_by_story = <<>>
    /\ hallway_added = {}
    /\ story = 0
    /\ room_id = 0
    /\ all_rooms = <<>>
    /\ all_connections = <<>>
    /\ all_doors = <<>>
    /\ grid = {}
    /\ queue = <<>>
    /\ qi = 0
    /\ room_placements = <<>>
    /\ calls = <<>>
    /\ stage = "none"
    /\ free_at_start = 0
    /\ dropped = <<>>
    /\ layout = [pending |-> TRUE]

\* ------------------------------------------------------- generate_layout
\* if not rooms: return {"rooms": [], "connections": [], "doors": []}
ReturnEmpty ==
    /\ pc = "call"
    /\ rooms = <<>>
    /\ layout' = [rooms |-> <<>>, connections |-> <<>>, doors |-> <<>>]
    /\ pc' = "done"
    /\ UNCHANGED <<rooms, plot_size, stories, rooms_by_story, hallway_added,
                   story, room_id, all_rooms, all_connections, all_doors, grid,
                   queue, qi, room_placements, calls, stage, free_at_start,
                   dropped>>

\* rooms_by_story = self._distribute_rooms_by_story(rooms, stories)
Distribute ==
    /\ pc = "call"
    /\ rooms # <<>>
    /\ rooms_by_story' = distribute_rooms_by_story(rooms, stories)
    /\ hallway_added' = HallwayStories(DistAssigned(rooms, stories), stories)
    /\ story' = 1
    /\ room_id' = 0
    /\ all_rooms' = <<>>
    /\ all_connections' = <<>>
    /\ all_doors' = <<>>
    /\ pc' = "story"
    /\ UNCHANGED <<rooms, plot_size, stories, grid, queue, qi, room_placements,
                   calls, stage, free_at_start, dropped, layout>>

\* ------------------------------------------------ _generate_story_layout
PublicTypes  == {"living room", "tv lounge", "dining room", "lobby", "entrance"}
KitchenTypes == {"kitchen"}
BedroomTypes == {"bedroom"}
BathTypes    == {"bathroom", "washroom"}
GarageTypes  == {"garage", "car parking"}

Tag(seq, cat) ==
    [k \in 1..Len(seq) |-> [type |-> seq[k], cat |-> cat, i |-> k - 1, n |-> Len(seq)]]

\* (mutant) the bedrooms are placed before the kitchens
ProcessingOrder_bedroom_first(story_rooms) ==
    Tag(Filter(story_rooms, PublicTypes), "public")
    \o Tag(Filter(story_rooms, BedroomTypes), "bedroom")
    \o Tag(Filter(story_rooms, KitchenTypes), "kitchen")
    \o Tag(Filter(story_rooms, BathTypes), "bathroom")
    \o Tag(Filter(story_rooms, GarageTypes), "garage")
    \o Tag(FilterOut(story_rooms, PublicTypes \cup KitchenTypes \cup BedroomTypes
                                  \cup BathTypes \cup GarageTypes), "other")

\* the rooms of a story in the order in which they are placed
ProcessingOrder(story_rooms) ==
    Tag(Filter(story_rooms, PublicTypes), "public")
    \o Tag(Filter(story_rooms, KitchenTypes), "kitchen")
    \o Tag(Filter(story_rooms, BedroomTypes), "bedroom")
    \o Tag(Filter(story_rooms, BathTypes), "bathroom")
    \o Tag(Filter(story_rooms, GarageTypes), "garage")
    \o Tag(FilterOut(story_rooms, PublicTypes \cup KitchenTypes \cup BedroomTypes
                                  \cup BathTypes \cup GarageTypes), "other")

CountCat(q, cat) == Cardinality({k \in 1..Len(q) : q[k].cat = cat})

ZoneCall(z)   == [kind |-> "zone", zone |-> z, target |-> <<0, 0>>]
NearCall(pos) == [kind |-> "near", zone |-> "", target |-> pos]
AnywhereCall  == [kind |-> "anywhere", zone |-> "", target |-> <<0, 0>>]

\* (mutant) the index of the paired bedroom leaves out the kitchens
PlanFor_no_kitchen(q, k, placements) ==
    LET r == q[k]
    IN  CASE r.cat = "public" ->
               <<ZoneCall(IF r.i < r.n \div 2 THEN "public" ELSE "other")>>
          [] r.cat = "kitchen" -> <<ZoneCall("service")>>
          [] r.cat = "bedroom" -> <<ZoneCall("private")>>
          [] r.cat = "bathroom" ->
               LET bedroom_idx == CountCat(q, "public") + r.i
               IN  IF /\ r.i < CountCat(q, "bedroom")
                      /\ Len(placements) > bedroom_idx
                   THEN <<NearCall(placements[bedroom_idx + 1].position),
                          ZoneCall("private")>>
                   ELSE <<ZoneCall("private")>>
          [] r.cat = "garage" -> <<ZoneCall("service")>>
          [] OTHER ->
               <<ZoneCall("public"), ZoneCall("private"), ZoneCall("service"),
                 ZoneCall("other"), AnywhereCall>>

\* the placement calls the loops of _generate_story_layout make for q[k], each
\* made only when the ones before it returned no placement
PlanFor(q, k, placements) ==
    LET r == q[k]
    IN  CASE r.cat = "public" ->
               <<ZoneCall(IF r.i < r.n \div 2 THEN "public" ELSE "other")>>
          [] r.cat = "kitchen" -> <<ZoneCall("service")>>
          [] r.cat = "bedroom" -> <<ZoneCall("private")>>
          [] r.cat = "bathroom" ->
               LET bedroom_idx == CountCat(q, "public") + CountCat(q, "kitchen") + r.i
               IN  IF /\ r.i < CountCat(q, "bedroom")
                      /\ Len(placements) > bedroom_idx
                   THEN <<NearCall(placements[bedroom_idx + 1].position),
                          ZoneCall("private")>>
                   ELSE <<ZoneCall("private")>>
          [] r.cat = "garage" -> <<ZoneCall("service")>>
          [] OTHER ->
               <<ZoneCall("public"), ZoneCall("private"), ZoneCall("service"),
                 ZoneCall("other"), AnywhereCall>>

\* the first stage of a placement call
FirstStage(call) ==
    CASE call.kind = "zone" -> "zone"
      [] call.kind = "near" -> "adjacent"
      [] OTHER -> "anywhere"

\* take up room k of the queue (or leave the placement loops after the last)
TakeUp(q, k, placements, g) ==
    /\ qi' = k
    /\ free_at_start' = Cardinality(AllCells(grid_size) \ g)
    /\ IF k > Len(q)
       THEN /\ pc' = "build"
            /\ calls' = <<>>
            /\ stage' = "none"
       ELSE /\ pc' = "place"
            /\ calls' = PlanFor(q, k, placements)
            /\ stage' = FirstStage(PlanFor(q, k, placements)[1])

\* for story in range(1, stories + 1): grid, zones, categories, corridor
BeginStory ==
    /\ pc = "story"
    /\ story <= stories
    /\ IF rooms_by_story[story] = <<>>
       THEN /\ story' = story + 1
            /\ UNCHANGED <<pc, grid, queue, qi, room_placements, calls, stage,
                           free_at_start>>
       ELSE LET c == CorridorPlacement(grid_size)
                g == Cells(c.position[1], c.position[2], c.size[1], c.size[2])
            IN  /\ grid' = g
                /\ queue' = ProcessingOrder(rooms_by_story[story])
                /\ room_placements' = <<>>
                /\ TakeUp(ProcessingOrder(rooms_by_story[story]), 1, <<>>, g)
                /\ UNCHANGED story
    /\ UNCHANGED <<rooms, plot_size, stories, rooms_by_story, hallway_added,
                   room_id, all_rooms, all_connections, all_doors, dropped, layout>>

CurrentType == queue[qi].type

\* a trial succeeded: mark the cells, record the placement, go to the next room
Place(pos, f) ==
    LET g == grid \cup Cells(pos[1], pos[2], f[1], f[2])
        p == Append(room_placements,
                    [room |-> CurrentType, position |-> pos, size |-> f,
                     via |-> stage])
    IN  /\ grid' = g
        /\ room_placements' = p
        /\ TakeUp(queue, qi + 1, p, g)
        /\ UNCHANGED <<rooms, plot_size, stories, rooms_by_story, hallway_added,
                       story, room_id, all_rooms, all_connections, all_doors,
                       queue, dropped, layout>>

\* the trials of a stage failed: go on with the next stage of the call
NextStage(st) ==
    /\ stage' = st
    /\ UNCHANGED <<rooms, plot_size, stories, pc, rooms_by_story, hallway_added,
                   story, room_id, all_rooms, all_connections, all_doors, grid,
                   queue, qi, room_placements, calls, free_at_start, dropped,
                   layout>>

\* the call returned (None, None): make the next call, or drop the room
CallFailed ==
    IF Len(calls) > 1
    THEN /\ calls' = Tail(calls)
         /\ stage' = FirstStage(calls[2])
         /\ UNCHANGED <<rooms, plot_size, stories, pc, rooms_by_story,
                        hallway_added, story, room_id, all_rooms, all_connections,
                        all_doors, grid, queue, qi, room_placements,
                        free_at_start, dropped, layout>>
    ELSE /\ dropped' = Append(dropped, [story |-> story, room |-> CurrentType,
                                        index |-> qi, free |-> free_at_start])
         /\ TakeUp(queue, qi + 1, room_placements, grid)
         /\ UNCHANGED <<rooms, plot_size, stories, rooms_by_story, hallway_added,
                        story, room_id, all_rooms, all_connections, all_doors,
                        grid, queue, room_placements, layout>>

Valid(cands, f) ==
    {c \in cands : is_position_valid(grid, grid_size, c[1], c[2], f[1], f[2])}

\* random.randint(a, b) with a > b raises ValueError: generate_layout ends
\* without a layout
Raise ==
    /\ pc' = "error"
    /\ UNCHANGED <<rooms, plot_size, stories, rooms_by_story, hallway_added,
                   story, room_id, all_rooms, all_connections, all_doors, grid,
                   queue, qi, room_placements, calls, stage, free_at_start,
                   dropped, layout>>

\* a loop of random trials over the candidate positions: the first valid
\* draw places the room; when no draw is valid the stage st follows
Trials(cands, f, st) ==
    IF cands = {}
    THEN Raise
    ELSE \/ \E c \in Valid(cands, f) : Place(c, f)
         \/ /\ Valid(cands, f) # cands
            /\ NextStage(st)

\* _place_room_in_zone, the 50 trials inside the zone
ZoneAttempt ==
    /\ pc = "place"
    /\ stage = "zone"
    /\ LET z == zones(grid_size)[calls[1].zone]
           a == AreaFootprint(CurrentType)
           f == ZoneFootprint(CurrentType, z.size)
           cands == ZoneCandidates(z.position, z.size, f)
       IN  IF (a[1] > z.size[1] \/ a[2] > z.size[2])
              /\ (f[1] > z.size[1] \/ f[2] > z.size[2])
           THEN NextStage("anywhere")
           ELSE Trials(cands, f, "anywhere")

\* _place_room_near_position, the four positions around the target
NearAdjacent ==
    /\ pc = "place"
    /\ stage = "adjacent"
    /\ LET f == AreaFootprint(CurrentType)
           ps == AdjacentPositions(f, calls[1].target)
           ok == {k \in 1..4 :
                    is_position_valid(grid, grid_size, ps[k][1], ps[k][2], f[1], f[2])}
       IN  IF ok # {}
           THEN Place(ps[CHOOSE k \in ok : \A m \in ok : k <= m], f)
           ELSE NextStage("nearby")

\* _place_room_near_position, the 20 trials within 3 cells of the target
NearRandom ==
    /\ pc = "place"
    /\ stage = "nearby"
    /\ LET f == AreaFootprint(CurrentType)
           cands == NearCandidates(grid_size, f, calls[1].target)
       IN  Trials(cands, f, "anywhere")

\* _place_room_anywhere, the 100 trials with the full footprint
AnywhereAttempt ==
    /\ pc = "place"
    /\ stage = "anywhere"
    /\ LET f == PlainFootprint(CurrentType)
           cands == AnywhereCandidates(grid_size, f)
       IN  Trials(cands, f, IF f[1] > 1 /\ f[2] > 1 THEN "shrunk" ELSE "scan")

\* _place_room_anywhere, the 50 trials with the footprint made smaller
ShrunkAttempt ==
    /\ pc = "place"
    /\ stage = "shrunk"
    /\ LET p == PlainFootprint(CurrentType)
           f == <<p[1] - 1, p[2] - 1>>
           cands == AnywhereCandidates(grid_size, f)
       IN  Trials(cands, f, "scan")

\* _place_room_anywhere, the last resort: the first open cell, or (None, None)
ScanAttempt ==
    /\ pc = "place"
    /\ stage = "scan"
    /\ IF OpenCells(grid, grid_size) # {}
       THEN Place(FirstFree(grid, grid_size), <<1, 1>>)
       ELSE CallFailed

\* a length of g grid cells along a plot side, in units of 1/(4*G) metre:
\* g * (side / grid_size)
Scaled(g, side) == 4 * g * side

EntranceTypes == {"entrance", "lobby", "main entrance"}

\* (mutant) both axes are scaled with the plot width
RoomObject_square(id, type, st, pos, size, via) ==
    [id |-> id, type |-> type, story |-> st,
     position |-> <<Scaled(pos[1], total_width), Scaled(pos[2], total_width)>>,
     size |-> <<Scaled(size[1], total_width), Scaled(size[2], total_width)>>,
     grid_position |-> pos, grid_footprint |-> size, via |-> via]

\* a room object; grid_position, grid_footprint and via keep the grid
\* placement of the room and the stage that placed it
RoomObject(id, type, st, pos, size, via) ==
    [id |-> id, type |-> type, story |-> st,
     position |-> <<Scaled(pos[1], total_width), Scaled(pos[2], total_length)>>,
     size |-> <<Scaled(size[1], total_width), Scaled(size[2], total_length)>>,
     grid_position |-> pos, grid_footprint |-> size, via |-> via]

\* (mutant) the ids of every story start again at 0
RoomsList_local(start_id, st, placements) ==
    LET c == CorridorPlacement(grid_size)
    IN  <<RoomObject(0, "corridor", st, c.position, c.size, "corridor")>>
        \o [k \in 1..Len(placements) |->
              RoomObject(k, placements[k].room, st, placements[k].position,
                         placements[k].size, placements[k].via)]

\* rooms_list: the corridor, then the placed rooms, with real coordinates
RoomsList(start_id, st, placements) ==
    LET c == CorridorPlacement(grid_size)
    IN  <<RoomObject(start_id, "corridor", st, c.position, c.size, "corridor")>>
        \o [k \in 1..Len(placements) |->
              RoomObject(start_id + k, placements[k].room, st, placements[k].position,
                         placements[k].size, placements[k].via)]

\* "Connect all rooms to the corridor": one connection per room
StoryConnections(start_id, rooms_list) ==
    [k \in 1..(Len(rooms_list) - 1) |->
        [source |-> start_id, target |-> start_id + k, type |-> "door"]]

\* (mutant) every door leads to the corridor of the first story
RoomDoor_first_corridor(start_id, rooms_list, k, id) ==
    LET door_pos == find_door_position(grid_size, rooms_list[1], rooms_list[k + 1])
    IN  [position |-> door_pos.position, orientation |-> door_pos.orientation,
         width |-> door_width, rule |-> door_pos.rule,
         connects |-> <<0, id>>]

\* the door of room k of rooms_list; rule keeps which rule of
\* _find_door_position gave the position
RoomDoor(start_id, rooms_list, k, id) ==
    LET door_pos == find_door_position(grid_size, rooms_list[1], rooms_list[k + 1])
    IN  [position |-> door_pos.position, orientation |-> door_pos.orientation,
         width |-> door_width, rule |-> door_pos.rule,
         connects |-> <<start_id, id>>]

\* (mutant) the rooms are counted from 0, so a door names the room before
StoryRoomDoors_from_zero(start_id, rooms_list) ==
    [k \in 1..(Len(rooms_list) - 1) |->
        RoomDoor(start_id, rooms_list, k, start_id + k - 1)]

\* (mutant) no door for a room that shares no wall with the corridor
StoryRoomDoors_adjacent(start_id, rooms_list) ==
    LET all == [k \in 1..(Len(rooms_list) - 1) |->
                  RoomDoor(start_id, rooms_list, k, start_id + k)]
        wall(d) == d.rule = "wall"
    IN  SelectSeq(all, wall)

\* ... and one door per room for which _find_door_position gives a position
StoryRoomDoors(start_id, rooms_list) ==
    [k \in 1..(Len(rooms_list) - 1) |->
        RoomDoor(start_id, rooms_list, k, start_id + k)]

\* d.get("type") == "main_entrance"
IsMainEntrance(d) == "type" \in DOMAIN d /\ d.type = "main_entrance"

MainDoor(room, id) ==
    [position |-> <<room.position[1] + room.size[1] \div 2, room.position[2]>>,
     orientation |-> "vertical", width |-> main_door_width,
     type |-> "main_entrance", rule |-> "exterior", connects |-> <<id, 0 - 1>>]

\* "Add exterior door for the entrance": the first entrance room of the
\* story, else the corridor of the story
StoryMainDoors(start_id, rooms_list, doors) ==
    LET entr == {k \in 1..Len(rooms_list) : Lower(rooms_list[k].type) \in EntranceTypes}
        d1 == IF entr # {}
              THEN LET k == CHOOSE m \in entr : \A n \in entr : m <= n
                   IN  <<MainDoor(rooms_list[k], start_id + k - 1)>>
              ELSE <<>>
    IN  IF \E k \in 1..Len(doors \o d1) : IsMainEntrance((doors \o d1)[k])
        THEN d1
        ELSE d1 \o <<MainDoor(rooms_list[1], start_id)>>

\* the rest of _generate_story_layout and of the loop body of generate_layout
BuildStory ==
    /\ pc = "build"
    /\ LET rooms_list == RoomsList(room_id, story, room_placements)
           doors == StoryRoomDoors(room_id, rooms_list)
       IN  /\ room_id' = room_id + Len(rooms_list)
           /\ all_rooms' = all_rooms \o rooms_list
           /\ all_connections' = all_connections \o StoryConnections(room_id, rooms_list)
           /\ all_doors' = all_doors \o doors \o StoryMainDoors(room_id, rooms_list, doors)
    /\ story' = story + 1
    /\ pc' = "story"
    /\ UNCHANGED <<rooms, plot_size, stories, rooms_by_story, hallway_added, grid,
                   queue, qi, room_placements, calls, stage, free_at_start,
                   dropped, layout>>

\* layout = {...}; return layout
ReturnLayout ==
    /\ pc = "story"
    /\ story > stories
    /\ layout' = [rooms |-> all_rooms, connections |-> all_connections,
                  doors |-> all_doors, stories |-> stories, plot_size |-> plot_size]
    /\ pc' = "done"
    /\ UNCHANGED <<rooms, plot_size, stories, rooms_by_story, hallway_added, story,
                   room_id, all_rooms, all_connections, all_doors, grid, queue, qi,
                   room_placements, calls, stage, free_at_start, dropped>>

Next ==
    \/ ReturnEmpty
    \/ Distribute
    \/ BeginStory
    \/ ZoneAttempt
    \/ NearAdjacent
    \/ NearRandom
    \/ AnywhereAttempt
    \/ ShrunkAttempt
    \/ ScanAttempt
    \/ BuildStory
    \/ ReturnLayout

Spec == Init /\ [][Next]_vars

\* ------------------------------- the story distribution on its own inputs
DistRoomTypes == {"bedroom", "bathroom", "kitchen", "study"}

DistInputs ==
    {[rooms |-> r, stories |-> n, plot_size |-> DefaultPlot] :
        r \in SeqsUpTo(DistRoomTypes, MaxDistRooms), n \in 1..MaxDistStories}
    \cup {[rooms |-> <<"bedroom", "bedroom", "bathroom", "kitchen", "living room">>,
           stories |-> 2, plot_size |-> DefaultPlot],
          [rooms |-> <<"washroom", "Bedroom", "hallway">>,
           stories |-> 2, plot_size |-> DefaultPlot],
          [rooms |-> Repeat("bedroom", 7) \o Repeat("bathroom", 3),
           stories |-> 3, plot_size |-> DefaultPlot],
          [rooms |-> Repeat("bedroom", 8) \o Repeat("bathroom", 5),
           stories |-> 4, plot_size |-> DefaultPlot],
          [rooms |-> Repeat("bathroom", 2) \o Repeat("bedroom", 9),
           stories |-> 4, plot_size |-> DefaultPlot]}

InitDist ==
    /\ \E inp \in DistInputs :
          /\ rooms = inp.rooms
          /\ stories = inp.stories
          /\ plot_size = inp.plot_size
    /\ pc = "call"
    /\ rooms_by_story = <<>>
    /\ hallway_added = {}
    /\ story = 0
    /\ room_id = 0
    /\ all_rooms = <<>>
    /\ all_connections = <<>>
    /\ all_doors = <<>>
    /\ grid = {}
    /\ queue = <<>>
    /\ qi = 0
    /\ room_placements = <<>>
    /\ calls = <<>>
    /\ stage = "none"
    /\ free_at_start = 0
    /\ dropped = <<>>
    /\ layout = [pending |-> TRUE]

NextDist ==
    \/ ReturnEmpty
    \/ Distribute

SpecDist == InitDist /\ [][NextDist]_vars

\* ================================================================ claims
Returned == pc = "done" /\ rooms # <<>>

RoomsOn(st) == {k \in 1..Len(layout.rooms) : layout.rooms[k].story = st}

Footprint(r) ==
    Cells(r.grid_position[1], r.grid_position[2],
          r.grid_footprint[1], r.grid_footprint[2])

MainEntranceDoors ==
    {k \in 1..Len(layout.doors) : IsMainEntrance(layout.doors[k])}

CountType(seq, S) == Len(Filter(seq, S))

DroppedOn(st) == {k \in 1..Len(dropped) : dropped[k].story = st}

\* C1: in the returned layout no two distinct rooms of the same floor (the
\* corridor included) have a grid cell in common.
C1_NoOverlap ==
    Returned =>
        \A i, j \in 1..Len(layout.rooms) :
            (i # j /\ layout.rooms[i].story = layout.rooms[j].story)
                => Footprint(layout.rooms[i]) \cap Footprint(layout.rooms[j]) = {}

\* a floor whose rooms were placed by the zone trials, next to the paired
\* bedroom, with a shrunk footprint and by the single-cell scan
C1_Witness ==
    /\ Returned
    /\ \E st \in 1..stories :
          \A v \in {"zone", "adjacent", "shrunk", "scan"} :
              \E k \in RoomsOn(st) : layout.rooms[k].via = v

\* C2 (as claimed): the doors of the whole layout contain exactly one
\* main_entrance door, for every non-empty request and every story count.
C2_OneMainEntrance ==
    Returned => Cardinality(MainEntranceDoors) = 1

\* the id of the corridor of a floor: the first id of the floor
CorridorId(st) ==
    CHOOSE c \in {layout.rooms[k].id : k \in RoomsOn(st)} :
        \A k \in RoomsOn(st) : c <= layout.rooms[k].id

DoorsBetween(a, b) ==
    {k \in 1..Len(layout.doors) :
        {a, b} \subseteq {layout.doors[k].connects[1], layout.doors[k].connects[2]}}

\* C3: every room that is not a corridor has exactly one door that connects
\* it with the corridor of its floor, adjacent to the corridor or not.
C3_OneCorridorDoor ==
    Returned =>
        \A k \in 1..Len(layout.rooms) :
            layout.rooms[k].type # "corridor"
                => Cardinality(DoorsBetween(layout.rooms[k].id,
                                            CorridorId(layout.rooms[k].story))) = 1

\* a two-story layout with a room that shares no wall with the corridor
C3_Witness ==
    /\ Returned
    /\ stories = 2
    /\ \E k \in 1..Len(layout.doors) :
          /\ layout.doors[k].rule = "virtual"
          /\ layout.doors[k].connects[2] > 2

\* C4 (as claimed): every floor 1..N has exactly one room of type corridor,
\* and its id is the smallest id of the floor.
C4_OneCorridorPerFloor ==
    Returned =>
        \A st \in 1..stories :
            /\ Cardinality({k \in RoomsOn(st) : layout.rooms[k].type = "corridor"}) = 1
            /\ \A k \in RoomsOn(st) :
                  layout.rooms[k].type = "corridor"
                      => layout.rooms[k].id = CorridorId(st)

\* C5: the room ids of the layout are pairwise distinct and the ids of a
\* higher floor are greater than the ids of a lower floor.
C5_IdsIncrease ==
    Returned =>
        \A i, j \in 1..Len(layout.rooms) :
            /\ i # j => layout.rooms[i].id # layout.rooms[j].id
            /\ layout.rooms[i].story < layout.rooms[j].story
                  => layout.rooms[i].id < layout.rooms[j].id

\* rooms were dropped on floor 1 and floor 2 has rooms
C5_Witness ==
    /\ Returned
    /\ DroppedOn(1) # {}
    /\ Cardinality(RoomsOn(2)) >= 2

InScenario ==
    /\ rooms = ScenarioRooms
    /\ stories = 1
    /\ plot_size = DefaultPlot

\* C6: bedroom, bedroom, kitchen, bathroom, living room on 15 x 15 m with one
\* story always gives 6 rooms and 6 doors, one of them a main_entrance.
C6_Scenario ==
    (InScenario /\ pc = "done") =>
        /\ Len(layout.rooms) = 6
        /\ Len(layout.doors) = 6
        /\ Cardinality(MainEntranceDoors) = 1

\* the scenario, ended with a room that the single-cell scan placed
C6_Witness ==
    /\ InScenario
    /\ pc = "done"
    /\ \E k \in 1..Len(layout.rooms) : layout.rooms[k].via = "scan"

Distributed == pc \notin {"call", "done", "error"}

\* C7: with N > 1 floors, floor 1 gets one bedroom when the bedroom count
\* exceeds 2*(N-1) and none otherwise, and one bathroom when moreover a
\* bathroom was requested and none otherwise; 2 bedrooms, 1 bathroom, 1
\* kitchen, 1 living room with N = 2 gives {kitchen, living room} and
\* {bedroom, bedroom, bathroom}.
C7_FirstFloor ==
    (Distributed /\ stories > 1) =>
        LET many == CountType(rooms, {"bedroom"}) > 2 * (stories - 1)
        IN  /\ CountType(rooms_by_story[1], {"bedroom"}) = IF many THEN 1 ELSE 0
            /\ CountType(rooms_by_story[1], {"bathroom", "washroom"})
                 = IF many /\ CountType(rooms, {"bathroom", "washroom"}) >= 1
                   THEN 1 ELSE 0
            /\ (rooms = <<"bedroom", "bedroom", "bathroom", "kitchen", "living room">>
                /\ stories = 2)
                 => /\ rooms_by_story[1] = <<"kitchen", "living room">>
                    /\ rooms_by_story[2] = <<"bedroom", "bedroom", "bathroom">>

\* three floors, more than four bedrooms and a bathroom: one of each on floor 1
C7_Witness ==
    /\ Distributed
    /\ stories = 3
    /\ CountType(rooms, {"bedroom"}) = 5
    /\ CountType(rooms, {"bathroom", "washroom"}) = 1
    /\ CountType(rooms_by_story[1], {"bedroom"}) = 1

\* C8: after the distribution every floor has a room, and a hallway was added
\* only to floors that were assigned no requested room.
C8_NoEmptyFloor ==
    Distributed =>
        /\ \A st \in 1..stories : rooms_by_story[st] # <<>>
        /\ \A st \in hallway_added : rooms_by_story[st] = <<"hallway">>
        /\ SumLen(rooms_by_story, stories) = Len(rooms) + Cardinality(hallway_added)

\* a floor with a single requested room next to a floor that got the hallway
C8_Witness ==
    /\ Distributed
    /\ hallway_added # {}
    /\ \E st \in 1..stories : st \notin hallway_added /\ Len(rooms_by_story[st]) = 1

\* C9: a room of a floor is missing from the layout only if no cell of the
\* grid was open when its placement began; no exception is raised.
C9_DroppedOnlyWhenFull ==
    /\ pc # "error"
    /\ \A k \in 1..Len(dropped) : dropped[k].free = 0
    /\ Returned =>
          \A st \in 1..stories :
              Cardinality(RoomsOn(st)) - 1 + Cardinality(DroppedOn(st))
                  = Len(rooms_by_story[st])

\* a layout with a dropped room and a room placed in the last open cell
C9_Witness ==
    /\ Returned
    /\ dropped # <<>>
    /\ \E k \in 1..Len(layout.rooms) :
          /\ layout.rooms[k].via = "scan"
          /\ layout.rooms[k].grid_position = <<4, 4>>

\* C10 (as claimed): the returned layout has the five fields rooms,
\* connections, doors, stories and plot_size, also for an empty request.
C10_FiveFields ==
    pc = "done" =>
        DOMAIN layout = {"rooms", "connections", "doors", "stories", "plot_size"}

\* the room of the layout with a given id
RoomWithId(id) ==
    layout.rooms[CHOOSE k \in 1..Len(layout.rooms) : layout.rooms[k].id = id]

\* C11 (as claimed): every door has a connection with the same (source,
\* target) pair, every connection has such a door, and the two lists have the
\* same length.
C11_ConnectionsMirrorDoors ==
    Returned =>
        /\ \A d \in 1..Len(layout.doors) :
              \E c \in 1..Len(layout.connections) :
                  <<layout.connections[c].source, layout.connections[c].target>>
                      = layout.doors[d].connects
        /\ \A c \in 1..Len(layout.connections) :
              \E d \in 1..Len(layout.doors) :
                  <<layout.connections[c].source, layout.connections[c].target>>
                      = layout.doors[d].connects
        /\ Len(layout.doors) = Len(layout.connections)

\* C12 (as claimed): a corridor carries a main_entrance door only when no
\* floor of the layout has a room of type entrance, lobby or main entrance,
\* and then only the corridor of floor 1 carries one.
C12_CorridorEntranceOnlyFloorOne ==
    Returned =>
        \A d \in MainEntranceDoors :
            LET r == RoomWithId(layout.doors[d].connects[1])
            IN  r.type = "corridor" =>
                  /\ r.story = 1
                  /\ \A k \in 1..Len(layout.rooms) :
                        Lower(layout.rooms[k].type) \notin EntranceTypes

\* the plot width and length the claim names: 15 x 15 unless both are given
ClaimedPlot ==
    IF {"width_meters", "length_meters"} \subseteq DOMAIN plot_size
    THEN <<plot_size.width_meters, plot_size.length_meters>>
    ELSE <<15, 15>>

ClaimedGrid == Max(5, Min(ClaimedPlot[1], ClaimedPlot[2]) \div 3)

Unknown(t) == Lower(t) \notin DOMAIN standard_dimensions

\* C14: a room whose type is not in the catalog raises no error; placed by
\* the zone, near-position or anywhere trials it has a footprint of 2 x 2
\* cells, after the shrink or the scan 1 x 1, and it is dropped only when no
\* cell is open.
C14_UnknownTypeDefault ==
    /\ pc # "error"
    /\ \A k \in 1..Len(dropped) : Unknown(dropped[k].room) => dropped[k].free = 0
    /\ Returned =>
          \A k \in 1..Len(layout.rooms) :
              LET r == layout.rooms[k]
              IN  Unknown(r.type) =>
                    /\ r.via \in {"zone", "adjacent", "nearby", "anywhere"}
                          => r.grid_footprint = <<2, 2>>
                    /\ r.via \in {"shrunk", "scan"} => r.grid_footprint = <<1, 1>>

\* a layout with a room of unknown type placed by the anywhere trials
C14_Witness ==
    /\ Returned
    /\ \E k \in 1..Len(layout.rooms) :
          Unknown(layout.rooms[k].type) /\ layout.rooms[k].via = "anywhere"

\* C15: the room with id k is element k of layout.rooms (counted from 0), and
\* every entry of a door's connects pair is -1 or the id of a room of the
\* layout on the same floor as the other room of the pair.
C15_IdsAreIndices ==
    Returned =>
        /\ \A k \in 1..Len(layout.rooms) : layout.rooms[k].id = k - 1
        /\ \A d \in 1..Len(layout.doors) :
              LET a == layout.doors[d].connects[1]
                  b == layout.doors[d].connects[2]
                  ids == {layout.rooms[k].id : k \in 1..Len(layout.rooms)}
              IN  /\ a = 0 - 1 \/ a \in ids
                  /\ b = 0 - 1 \/ b \in ids
                  /\ (a \in ids /\ b \in ids)
                        => RoomWithId(a).story = RoomWithId(b).story

\* a two-story layout with a door between two rooms of the upper floor
C15_Witness ==
    /\ Returned
    /\ stories = 2
    /\ \E d \in 1..Len(layout.doors) :
          LET a == layout.doors[d].connects[1]
              b == layout.doors[d].connects[2]
          IN  a > 0 /\ b > a /\ RoomWithId(b).story = 2

\* the place of a stage in the claimed order (the near-position trials of a
\* paired bathroom come before its zone attempt)
StageRank(st) ==
    CASE st = "adjacent" -> 1
      [] st = "nearby"   -> 2
      [] st = "zone"     -> 3
      [] st = "anywhere" -> 4
      [] st = "shrunk"   -> 5
      [] st = "scan"     -> 6
      [] OTHER           -> 0

\* C16 (as claimed): while one room is being placed the stages follow each
\* other in the order zone attempt, anywhere attempt, shrunk attempt, scan,
\* and no stage is attempted a second time for that room.
C16_StagesInOrder ==
    [][(pc = "place" /\ pc' = "place" /\ qi' = qi)
          => StageRank(stage') > StageRank(stage)]_vars

\* C17 (as claimed): when the anywhere attempts of a room all fail, the
\* attempts with the footprint reduced by 1 (not below 1) follow, whatever
\* the footprint is, before the single-cell scan.
C17_ShrinkEveryFootprint ==
    [][(pc = "place" /\ stage = "anywhere" /\ pc' = "place" /\ qi' = qi)
          => stage' = "shrunk"]_vars

\* C18 (as claimed): the zone attempt of a kitchen or garage room targets the
\* service zone, of a bedroom or bathroom the private zone, of a public room
\* that is not an overflow room the public zone; the only public room of a
\* floor is not an overflow room.
C18_ZoneRouting ==
    (pc = "place" /\ stage = "zone" /\ queue[qi].cat # "other") =>
        LET r == queue[qi]
        IN  /\ r.cat \in {"kitchen", "garage"} => calls[1].zone = "service"
            /\ r.cat \in {"bedroom", "bathroom"} => calls[1].zone = "private"
            /\ r.cat = "public" => calls[1].zone \in {"public", "other"}
            /\ (r.cat = "public" /\ r.n = 1) => calls[1].zone = "public"

ZoneCells(G, z) ==
    Cells(zones(G)[z].position[1], zones(G)[z].position[2],
          zones(G)[z].size[1], zones(G)[z].size[2])

\* C19 (as claimed): for the grid dimension of the request the zones public,
\* private, service and other are pairwise disjoint, lie within the grid and
\* together contain every grid cell.
C19_ZonesPartitionGrid ==
    pc \in {"place", "build"} =>
        LET G == grid_size
            names == {"public", "private", "service", "other"}
        IN  /\ \A a, b \in names : a # b => ZoneCells(G, a) \cap ZoneCells(G, b) = {}
            /\ \A a \in names : ZoneCells(G, a) \subseteq AllCells(G)
            /\ UNION {ZoneCells(G, a) : a \in names} = AllCells(G)

\* the positions at which a footprint lies inside the grid
InBounds(G, f) == {p \in AllCells(G) : p[1] + f[1] <= G /\ p[2] + f[2] <= G}

\* C20 (as claimed): the anywhere attempt and its shrunk retry can draw every
\* position at which the footprint lies inside the grid, the positions where
\* it touches the last row or the last column included.
C20_AnywhereCoversGrid ==
    /\ (pc = "place" /\ stage = "anywhere") =>
           AnywhereCandidates(grid_size, PlainFootprint(CurrentType))
               = InBounds(grid_size, PlainFootprint(CurrentType))
    /\ (pc = "place" /\ stage = "shrunk") =>
           LET f == <<PlainFootprint(CurrentType)[1] - 1,
                      PlainFootprint(CurrentType)[2] - 1>>
           IN  AnywhereCandidates(grid_size, f) = InBounds(grid_size, f)

\* the sides of a room of the layout, and coordinates that are within 0.1 m
Left(r)   == r.position[1]
Right(r)  == r.position[1] + r.size[1]
Bottom(r) == r.position[2]
Top(r)    == r.position[2] + r.size[2]

Near(a, b) == Abs(a - b) * 10 < 4 * grid_size

\* the two rooms have a vertical (horizontal) boundary in common along a
\* segment of positive length
SharesVerticalWall(c, r) ==
    /\ Near(Right(c), Left(r)) \/ Near(Right(r), Left(c))
    /\ Min(Top(c), Top(r)) - Max(Bottom(c), Bottom(r)) > 0

SharesHorizontalWall(c, r) ==
    /\ Near(Top(c), Bottom(r)) \/ Near(Top(r), Bottom(c))
    /\ Min(Right(c), Right(r)) - Max(Left(c), Left(r)) > 0

\* the midpoint of the common segment on the shared boundary
VerticalWallMiddle(c, r) ==
    <<IF Near(Right(c), Left(r)) THEN Right(c) ELSE Left(c),
      (Max(Bottom(c), Bottom(r)) + Min(Top(c), Top(r))) \div 2>>

HorizontalWallMiddle(c, r) ==
    <<(Max(Left(c), Left(r)) + Min(Right(c), Right(r))) \div 2,
      IF Near(Top(c), Bottom(r)) THEN Top(c) ELSE Bottom(c)>>

\* the doors between a corridor and a room
RoomDoors == {d \in 1..Len(layout.doors) : ~IsMainEntrance(layout.doors[d])}

\* C21 (as claimed): a door placed by the adjacency rule lies at the midpoint
\* of a wall segment of positive length that the corridor and the room have
\* in common; rooms that touch only at a corner get the virtual door.
C21_WallDoorOnSharedWall ==
    Returned =>
        \A d \in RoomDoors :
            LET door == layout.doors[d]
                c == RoomWithId(door.connects[1])
                r == RoomWithId(door.connects[2])
            IN  door.rule = "wall" =>
                  \/ SharesVerticalWall(c, r) /\ door.position = VerticalWallMiddle(c, r)
                  \/ SharesHorizontalWall(c, r) /\ door.position = HorizontalWallMiddle(c, r)

\* C22: a room that shares a vertical boundary with the corridor along
\* overlapping vertical extents has its door on that boundary at the middle
\* of the overlap, orientation horizontal; a room that shares a horizontal
\* boundary along overlapping horizontal extents has it at the middle of that
\* overlap, orientation vertical.
C22_AdjacencyDoor ==
    Returned =>
        \A d \in RoomDoors :
            LET door == layout.doors[d]
                c == RoomWithId(door.connects[1])
                r == RoomWithId(door.connects[2])
            IN  /\ SharesVerticalWall(c, r) =>
                      /\ door.position = VerticalWallMiddle(c, r)
                      /\ door.orientation = "horizontal"
                /\ SharesHorizontalWall(c, r) =>
                      /\ door.position = HorizontalWallMiddle(c, r)
                      /\ door.orientation = "vertical"

\* a layout with a room at an end of the corridor and a room above or below it
C22_Witness ==
    /\ Returned
    /\ \E d \in RoomDoors :
          SharesVerticalWall(RoomWithId(layout.doors[d].connects[1]),
                             RoomWithId(layout.doors[d].connects[2]))
    /\ \E d \in RoomDoors :
          SharesHorizontalWall(RoomWithId(layout.doors[d].connects[1]),
                               RoomWithId(layout.doors[d].connects[2]))

\* the place of a room type in the claimed processing order
CatRank(t) ==
    CASE Lower(t) \in {"living room", "tv lounge", "dining room", "lobby", "entrance"} -> 1
      [] Lower(t) = "kitchen" -> 2
      [] Lower(t) = "bedroom" -> 3
      [] Lower(t) \in {"bathroom", "washroom"} -> 4
      [] Lower(t) \in {"garage", "car parking"} -> 5
      [] OTHER -> 6

RECURSIVE IsSubseq(_, _)
IsSubseq(a, b) ==
    IF a = <<>> THEN TRUE
    ELSE IF b = <<>> THEN FALSE
    ELSE IF Head(a) = Head(b) THEN IsSubseq(Tail(a), Tail(b))
    ELSE IsSubseq(a, Tail(b))

\* the types of the requested rooms of a floor with a given rank, in the
\* order of layout.rooms
FloorTypes(st, rank) ==
    LET pick(r) == r.story = st /\ r.via # "corridor" /\ CatRank(r.type) = rank
        sel == SelectSeq(layout.rooms, pick)
    IN  [k \in 1..Len(sel) |-> sel[k].type]

\* the requested types with a given rank, in request order
RequestTypes(rank) ==
    LET pick(t) == CatRank(t) = rank
    IN  SelectSeq(rooms, pick)

\* C23: on every floor the non-corridor rooms are listed, with increasing
\* ids, in the order public, kitchen, bedroom, bathroom, garage, other, and in
\* request order within a category, whatever the order of the request.
C23_ProcessingOrder ==
    Returned =>
        /\ \A i, j \in 1..Len(layout.rooms) :
              (/\ i < j
               /\ layout.rooms[i].story = layout.rooms[j].story
               /\ layout.rooms[i].via # "corridor"
               /\ layout.rooms[j].via # "corridor")
                 => /\ CatRank(layout.rooms[i].type) <= CatRank(layout.rooms[j].type)
                    /\ layout.rooms[i].id < layout.rooms[j].id
        /\ \A st \in 1..stories : \A rank \in 1..6 :
              IF st \in hallway_added
              THEN IsSubseq(FloorTypes(st, rank), <<"hallway">>)
              ELSE IsSubseq(FloorTypes(st, rank), RequestTypes(rank))

\* a bedroom requested before a kitchen and listed after it
C23_Witness ==
    /\ Returned
    /\ rooms = <<"bedroom", "kitchen">>
    /\ stories = 1
    /\ Len(layout.rooms) = 3
    /\ layout.rooms[2].type = "kitchen"
    /\ layout.rooms[3].type = "bedroom"

\* row G // 2, columns 1 .. G-2
CorridorCells(G) == {<<x, G \div 2>> : x \in 1..(G - 2)}

\* C24: the corridor of every floor is the strip of height 1 in row G // 2,
\* columns 1 .. G-2; its cells are occupied at every placement attempt, and no
\* room's footprint contains one of them.
C24_CorridorFirst ==
    /\ pc = "place" =>
          /\ CorridorCells(grid_size) \subseteq grid
          /\ \A k \in 1..Len(room_placements) :
                Cells(room_placements[k].position[1], room_placements[k].position[2],
                      room_placements[k].size[1], room_placements[k].size[2])
                    \cap CorridorCells(grid_size) = {}
    /\ Returned =>
          \A k \in 1..Len(layout.rooms) :
              IF layout.rooms[k].via = "corridor"
              THEN /\ layout.rooms[k].grid_position = <<1, grid_size \div 2>>
                   /\ layout.rooms[k].grid_footprint = <<grid_size - 2, 1>>
              ELSE Footprint(layout.rooms[k]) \cap CorridorCells(grid_size) = {}

\* a 6 x 6 grid with a room in the row of the corridor, beside its end
C24_Witness ==
    /\ Returned
    /\ grid_size = 6
    /\ \E k \in 1..Len(layout.rooms) :
          /\ layout.rooms[k].via # "corridor"
          /\ layout.rooms[k].grid_position[2] = grid_size \div 2

\* the placements of bedrooms among the first n placements of the floor
BedroomsAmong(n) ==
    {k \in 1..n : Lower(room_placements[k].room) = "bedroom"}

FirstDropped(st) ==
    CHOOSE i \in {dropped[d].index : d \in DroppedOn(st)} :
        \A d \in DroppedOn(st) : i <= dropped[d].index

\* C28: on each floor the placed rooms are a prefix of the processing order:
\* once a room is dropped no cell is open, and the rooms placed are exactly
\* those processed before the first dropped one.
C28_PlacedIsPrefix ==
    /\ (pc \in {"place", "build"} /\ DroppedOn(story) # {}) =>
          /\ AllCells(grid_size) \ grid = {}
          /\ Len(room_placements) = FirstDropped(story) - 1
    /\ Returned =>
          \A st \in 1..stories :
              DroppedOn(st) # {} =>
                  Cardinality(RoomsOn(st)) - 1 = FirstDropped(st) - 1

\* a floor on which a room was dropped and at least two rooms came after it
C28_Witness ==
    /\ Returned
    /\ \E st \in 1..stories :
          /\ DroppedOn(st) # {}
          /\ FirstDropped(st) + 2 <= Len(rooms_by_story[st])
          /\ FirstDropped(st) > 1

\* the cells of a rectangle of the grid
Rect(pos, size) ==
    {c \in AllCells(grid_size) :
        /\ pos[1] <= c[1] /\ c[1] < pos[1] + size[1]
        /\ pos[2] <= c[2] /\ c[2] < pos[2] + size[2]}

\* C29: a placement attempt that places nothing leaves the grid as it is; one
\* that places a room turns exactly the cells of its footprint from free to
\* occupied; every floor starts from a grid that holds its corridor only.
C29_GridFrame ==
    [][/\ (pc = "place" /\ room_placements' = room_placements) => grid' = grid
       /\ (pc = "place" /\ room_placements' # room_placements) =>
             LET p == room_placements'[Len(room_placements')]
             IN  /\ Len(room_placements') = Len(room_placements) + 1
                 /\ Rect(p.position, p.size) \cap grid = {}
                 /\ Cardinality(Rect(p.position, p.size)) = p.size[1] * p.size[2]
                 /\ grid' = grid \cup Rect(p.position, p.size)
       /\ (pc = "story" /\ pc' = "place") =>
             grid' = Rect(<<1, grid_size \div 2>>, <<grid_size - 2, 1>>)]_vars

\* two floors, a dropped room, and a cell that a room of each floor occupies
C29_Witness ==
    /\ Returned
    /\ stories = 2
    /\ dropped # <<>>
    /\ \E i, j \in 1..Len(layout.rooms) :
          /\ layout.rooms[i].story = 1 /\ layout.rooms[i].via # "corridor"
          /\ layout.rooms[j].story = 2 /\ layout.rooms[j].via # "corridor"
          /\ Footprint(layout.rooms[i]) \cap Footprint(layout.rooms[j]) # {}

\* C30: every room of the layout, the corridor included, has a footprint of
\* at least 1 x 1 cells inside the G x G grid, and so lies inside the plot
\* rectangle [0, W] x [0, L] (a stored length v is v / (4*G) metres).
C30_InsideGrid ==
    Returned =>
        \A k \in 1..Len(layout.rooms) :
            LET r == layout.rooms[k]
                G == grid_size
            IN  /\ r.grid_position[1] >= 0 /\ r.grid_position[2] >= 0
                /\ r.grid_footprint[1] >= 1 /\ r.grid_footprint[2] >= 1
                /\ r.grid_position[1] + r.grid_footprint[1] <= G
                /\ r.grid_position[2] + r.grid_footprint[2] <= G
                /\ Left(r) >= 0 /\ Bottom(r) >= 0
                /\ Right(r) <= 4 * G * ClaimedPlot[1]
                /\ Top(r) <= 4 * G * ClaimedPlot[2]

\* a room placed by the random near-position trials at the edge of the grid
C30_Witness ==
    /\ Returned
    /\ \E k \in 1..Len(layout.rooms) :
          /\ layout.rooms[k].via = "nearby"
          /\ \/ layout.rooms[k].grid_position[1] + layout.rooms[k].grid_footprint[1]
                  = grid_size
             \/ layout.rooms[k].grid_position[2] + layout.rooms[k].grid_footprint[2]
                  = grid_size

BedsOn(st)  == CountType(rooms_by_story[st], {"bedroom"})
BathsOn(st) == CountType(rooms_by_story[st], {"bathroom", "washroom"})

\* C26: with N > 1 the numbers of bedrooms of any two floors in 2..N differ
\* by at most 1, and so do the numbers of bathrooms, also when a bedroom and
\* a bathroom were pulled back to floor 1.
C26_EvenUpperFloors ==
    (Distributed /\ stories > 1) =>
        \A s, t \in 2..stories :
            /\ Abs(BedsOn(s) - BedsOn(t)) <= 1
            /\ Abs(BathsOn(s) - BathsOn(t)) <= 1

\* three floors, a bedroom pulled back to floor 1 and a remainder on floor 2
C26_Witness ==
    /\ Distributed
    /\ stories = 3
    /\ BedsOn(1) = 1
    /\ BedsOn(2) = BedsOn(3) + 1

\* how often a type string occurs in a sequence, and on the floors 1..n
Occurrences(seq, t) == Cardinality({k \in 1..Len(seq) : seq[k] = t})

RECURSIVE OccurrencesOnFloors(_, _)
OccurrencesOnFloors(t, n) ==
    IF n = 0 THEN 0
    ELSE Occurrences(rooms_by_story[n], t) + OccurrencesOnFloors(t, n - 1)

\* C27: for every request and every N >= 1 the rooms over the floors 1..N
\* are the requested rooms, each once, plus one hallway for every floor that
\* was left empty.
C27_RoomsConserved ==
    Distributed =>
        /\ DOMAIN rooms_by_story = 1..stories
        /\ \A t \in {rooms[k] : k \in 1..Len(rooms)} \cup {"hallway"} :
              OccurrencesOnFloors(t, stories)
                  = Occurrences(rooms, t)
                    + (IF t = "hallway" THEN Cardinality(hallway_added) ELSE 0)
        /\ \A st \in 1..stories : \A k \in 1..Len(rooms_by_story[st]) :
              rooms_by_story[st][k] \in {rooms[j] : j \in 1..Len(rooms)} \cup {"hallway"}

\* three floors and three bedrooms: the third is assigned by the second loop
C27_Witness ==
    /\ Distributed
    /\ stories = 3
    /\ CountType(rooms, {"bedroom"}) = 3
    /\ BedsOn(2) = 2
    /\ BedsOn(3) = 1

====
